---- MODULE Spec2Model ----
(***************************************************************************)
(* A model of src/bot.js, the Ask Oromia Telegram bot: the document store  *)
(* (users, questions, answers, sessions, subscriptions, votes,             *)
(* notifications), the publication channel, and one action per update      *)
(* handler (bot.command / bot.action / bot.on('text')).                    *)
(*                                                                         *)
(* Texts are sequences of UTF-16 code units, as JavaScript strings are; a   *)
(* code unit is a one-character string, but for the two surrogate units of  *)
(* an emoji.  A field that JavaScript leaves undefined is the value         *)
(* Undefined.  Document ids (ObjectId) are   *)
(* the naturals 1, 2, ... handed out in insertion order and never reused.  *)
(* Telegram user ids are the strings of Users.                             *)
(***************************************************************************)
EXTENDS Integers, Sequences, FiniteSets, Bags, TLC

VARIABLES
    users,          \* collection 'users':     user_id -> document
    questions,      \* collection 'questions': _id -> document
    answers,        \* collection 'answers':   _id -> document
    sessions,       \* collection 'sessions':  user_id -> data
    subscriptions,  \* collection 'subscriptions': bag of <<user_id, question_id>>
    votes,          \* collection 'votes': set of documents
    notifications,  \* collection 'notifications': bag of documents
    channel,        \* messages posted to PUBLIC_CHANNEL, in order: question ids
    outbox,         \* direct bot.telegram.sendMessage deliveries (distinct ones)
    nextQ,          \* the next question _id
    nextA,          \* the next answer _id
    inflight,       \* updates being handled concurrently: their position and locals
    last            \* the update handled last and the reply it got

vars == <<users, questions, answers, sessions, subscriptions, votes,
          notifications, channel, outbox, nextQ, nextA, inflight, last>>

store == <<users, questions, answers, sessions, subscriptions, votes,
           notifications, channel, outbox, nextQ, nextA>>

-----------------------------------------------------------------------------
(* Bounds of the model *)

MaxQuestions == 2
MaxAnswers == 2
MaxPosts == 2
MaxVoteNotifications == 3
MaxInflight == 2

-----------------------------------------------------------------------------
(* Configuration and identities *)

ADMIN_ID == "admin"

Users == {"admin", "bob", "carol"}

QIds == 1..MaxQuestions
AIds == 1..MaxAnswers

Undefined == <<"<undefined>">>

TOPICS ==
    << <<"R","e","l","a","t","i","o","n","s","h","i","p","s">>,
       <<"T","e","c","h","n","o","l","o","g","y">>,
       <<"E","d","u","c","a","t","i","o","n">>,
       <<"B","u","s","i","n","e","s","s">>,
       <<"F","a","m","i","l","y">>,
       <<"O","t","h","e","r","s">> >>

\* TOPICS[topicIndex] of JavaScript: 0-based, undefined past the end.
TopicAt(topicIndex) ==
    IF topicIndex + 1 \in DOMAIN TOPICS THEN TOPICS[topicIndex + 1] ELSE Undefined

-----------------------------------------------------------------------------
(* Content filter *)

UpperCase == <<"A","B","C","D","E","F","G","H","I","J","K","L","M",
               "N","O","P","Q","R","S","T","U","V","W","X","Y","Z">>
LowerCase == <<"a","b","c","d","e","f","g","h","i","j","k","l","m",
               "n","o","p","q","r","s","t","u","v","w","x","y","z">>

\* toLowerCase leaving the text as it is
toLowerCase_Identity(text) == text

toLowerCase(text) ==
    [i \in DOMAIN text |->
        IF \E k \in DOMAIN UpperCase : UpperCase[k] = text[i]
        THEN LowerCase[CHOOSE k \in DOMAIN UpperCase : UpperCase[k] = text[i]]
        ELSE text[i]]

includes(text, word) ==
    \E i \in 1..(Len(text) - Len(word) + 1) :
        SubSeq(text, i, i + Len(word) - 1) = word

bannedWords ==
    << <<"s","p","a","m">>,
       <<"s","c","a","m">>,
       <<"h","t","t","p",":","/","/">>,
       <<"h","t","t","p","s",":","/","/">>,
       <<"t","e","l","e","g","r","a","m",".","m","e">>,
       <<"t",".","m","e","/","j","o","i","n","c","h","a","t">>,
       <<"b","i","t",".","l","y">>,
       <<"t","i","n","y","u","r","l">> >>

capitalLetters(text) ==
    Cardinality({i \in DOMAIN text : \E k \in DOMAIN UpperCase : UpperCase[k] = text[i]})

\* the code units the RegExp dot does not match (no s flag): line terminators
LineTerminators == {"\n", "\r"}

\* /(.)\1{10,}/ (no u flag): some code unit that the dot matches, followed by
\* ten or more copies of itself
repetitivePattern(text) ==
    \E i \in 1..(Len(text) - 10) :
        /\ text[i] \notin LineTerminators
        /\ \A j \in i..(i + 10) : text[j] = text[i]

\* contentFilter with the length rule ahead of the banned words
contentFilter_LengthFirst(text) ==
    IF Len(text) > 2000
    THEN [allowed |-> FALSE, reason |-> "Content too long (max 2000 characters)"]
    ELSE IF \E w \in DOMAIN bannedWords : includes(toLowerCase(text), bannedWords[w])
    THEN [allowed |-> FALSE, reason |-> "Contains banned content"]
    ELSE IF capitalLetters(text) * 10 > 7 * Len(text) /\ Len(text) > 20
    THEN [allowed |-> FALSE, reason |-> "Too many capital letters"]
    ELSE IF repetitivePattern(text)
    THEN [allowed |-> FALSE, reason |-> "Repetitive text detected"]
    ELSE [allowed |-> TRUE, reason |-> ""]

contentFilter(text) ==
    IF \E w \in DOMAIN bannedWords : includes(toLowerCase(text), bannedWords[w])
    THEN [allowed |-> FALSE, reason |-> "Contains banned content"]
    ELSE IF Len(text) > 2000
    THEN [allowed |-> FALSE, reason |-> "Content too long (max 2000 characters)"]
    ELSE IF capitalLetters(text) * 10 > 7 * Len(text) /\ Len(text) > 20
    THEN [allowed |-> FALSE, reason |-> "Too many capital letters"]
    ELSE IF repetitivePattern(text)
    THEN [allowed |-> FALSE, reason |-> "Repetitive text detected"]
    ELSE [allowed |-> TRUE, reason |-> ""]

-----------------------------------------------------------------------------
(* Inputs: the free texts users type *)

TextHi == <<"H","i","?">>
TextEdited == <<"H","i","!">>
TextSpam == <<"S","p","a","m">>
TextBitLy == <<"x"," ","b","i","t",".","L","Y">>

\* n copies of the code unit c
Rep(c, n) == [i \in 1..n |-> c]

\* n code units, alternately a and b
Alt(a, b, n) == [i \in 1..n |-> IF i % 2 = 1 THEN a ELSE b]

TextRepeat == Rep("A", 15)

\* a message that looks like a command no bot.command handler is registered for
TextSlash == <<"/", "x">>

Texts == {TextHi, TextEdited, TextSpam, TextBitLy, TextRepeat}

\* the two code units of one emoji (U+1F602): high and low surrogate
HighSurrogate == "uD83D"
LowSurrogate == "uDE02"

\* n copies of the emoji
Emojis(n) == Alt(HighSurrogate, LowSurrogate, n + n)

toUpperCase(text) ==
    [i \in DOMAIN text |->
        IF \E k \in DOMAIN LowerCase : LowerCase[k] = text[i]
        THEN UpperCase[CHOOSE k \in DOMAIN LowerCase : LowerCase[k] = text[i]]
        ELSE text[i]]

\* a word with every other letter in upper case
MixedCase(word) ==
    [i \in DOMAIN word |-> IF i % 2 = 1 THEN toUpperCase(word)[i] ELSE word[i]]

\* texts with a banned word in lower, upper and mixed case, alone and inside
\* other text
BannedInputs ==
    {pre \o w \o post :
        pre \in {<<>>, TextHi},
        w \in UNION {{bannedWords[k], toUpperCase(bannedWords[k]),
                      MixedCase(bannedWords[k])} : k \in DOMAIN bannedWords},
        post \in {<<>>, TextEdited}}

\* texts of one repeated code unit, around the thresholds 10, 20 and 2000
RunInputs ==
    {Rep(c, n) : c \in {"A", "a", "!", "\n"}, n \in {10, 11, 15, 20, 21, 30, 2000, 2001}}
    \cup {Emojis(n) : n \in {5, 10, 11, 15}}

\* texts without runs: k capital letters followed by lower-case letters up to n
\* code units, around the ratio 0.7 and the lengths 20 and 2000
RatioInputs ==
    {Alt("A", "B", k) \o Alt("a", "b", n - k) :
        k \in {0, 14, 15, 20, 21, 22}, n \in {20, 21, 22, 30, 2000, 2001}}

\* texts that break several rules at once
MixedInputs ==
    {TextSpam \o Rep("A", 2001), toUpperCase(TextSpam) \o Alt("A", "B", 30),
     TextBitLy \o Rep("a", 11), Alt("A", "B", 17) \o Emojis(2),
     Alt("A", "B", 16) \o Emojis(2), Alt("A", "B", 10) \o Rep("Z", 11),
     Alt("a", "b", 5) \o Rep("\n", 11) \o Alt("a", "b", 5), TextHi}

FilterInputs == BannedInputs \cup RunInputs \cup RatioInputs \cup MixedInputs

-----------------------------------------------------------------------------
(* dbHelpers *)

Without(f, k) == [x \in (DOMAIN f) \ {k} |-> f[x]]

With(f, k, v) == [x \in (DOMAIN f) \cup {k} |-> IF x = k THEN v ELSE f[x]]

\* createUser writing the fresh record over an existing one
createUser_Overwrite(us, userId) ==
    With(us, userId, [points |-> 0, questions_asked |-> 0, answers_given |-> 0])

\* createUser: $setOnInsert upsert
createUser(us, userId) ==
    IF userId \in DOMAIN us THEN us
    ELSE With(us, userId, [points |-> 0, questions_asked |-> 0, answers_given |-> 0])

\* updateUserStats incrementing the field alone
updateUserStats_NoPoints(us, userId, field) ==
    IF userId \in DOMAIN us
    THEN [us EXCEPT ![userId] = [@ EXCEPT ![field] = @ + 1]]
    ELSE us

\* always called with increment 1: the field and points +5; no upsert
updateUserStats(us, userId, field) ==
    IF userId \in DOMAIN us
    THEN [us EXCEPT ![userId] = [[@ EXCEPT ![field] = @ + 1] EXCEPT !.points = @ + 5]]
    ELSE us

createQuestion(userId, question, topic) ==
    [user_id |-> userId, question |-> question, topic |-> topic, approved |-> FALSE,
     channel_message_id |-> 0, answer_count |-> 0]

\* approveQuestion setting approved without the channel_message_id
approveQuestion_NoReference(qs, us, questionId, channelMessageId) ==
    LET qs2 == IF questionId \in DOMAIN qs
               THEN [qs EXCEPT ![questionId].approved = TRUE]
               ELSE qs
    IN  [questions |-> qs2,
         users |-> IF questionId \in DOMAIN qs2
                   THEN updateUserStats(us, qs2[questionId].user_id, "questions_asked")
                   ELSE us]

\* the store after approveQuestion: the question updated, its author's stats bumped
approveQuestion(qs, us, questionId, channelMessageId) ==
    LET qs2 == IF questionId \in DOMAIN qs
               THEN [qs EXCEPT ![questionId].approved = TRUE,
                               ![questionId].channel_message_id = channelMessageId]
               ELSE qs
    IN  [questions |-> qs2,
         users |-> IF questionId \in DOMAIN qs2
                   THEN updateUserStats(us, qs2[questionId].user_id, "questions_asked")
                   ELSE us]

NewSession(step) ==
    [step |-> step, question |-> Undefined, topic |-> Undefined,
     waitingForCustomTopic |-> FALSE, questionId |-> 0,
     questionText |-> Undefined, channelMessageId |-> 0]

AnswerSession(questionId, question) ==
    [NewSession("awaiting_answer") EXCEPT
        !.questionId = questionId,
        !.questionText = question.question,
        !.channelMessageId = question.channel_message_id]

\* the documents of the sessions collection that match { user_id: userId }
sessionDocuments(ss, userId) == {d \in BagToSet(ss) : d.user_id = userId}

\* the document findOne, updateOne and deleteOne pick among the matching ones
firstSession(ss, userId) == CHOOSE d \in sessionDocuments(ss, userId) : TRUE

hasSession(ss, userId) == sessionDocuments(ss, userId) # {}

\* saveSession with insertOne in place of the upsert
saveSession_Insert(ss, userId, sessionData) ==
    ss (+) SetToBag({[user_id |-> userId, data |-> sessionData]})

\* saveSession with the data merged into the stored data ($set of each field the
\* new flow defines) instead of replacing it
saveSession_Merge(ss, userId, sessionData) ==
    LET old == firstSession(ss, userId).data
        merged == [f \in DOMAIN sessionData |->
                     IF f = "step" \/ sessionData[f] # NewSession("")[f]
                     THEN sessionData[f] ELSE old[f]]
    IN  IF hasSession(ss, userId)
        THEN (ss (-) SetToBag({firstSession(ss, userId)}))
                 (+) SetToBag({[user_id |-> userId, data |-> merged]})
        ELSE ss (+) SetToBag({[user_id |-> userId, data |-> sessionData]})

\* saveSession: updateOne({ user_id }, { $set: { data } }, { upsert: true })
saveSession(ss, userId, sessionData) ==
    IF hasSession(ss, userId)
    THEN (ss (-) SetToBag({firstSession(ss, userId)}))
             (+) SetToBag({[user_id |-> userId, data |-> sessionData]})
    ELSE ss (+) SetToBag({[user_id |-> userId, data |-> sessionData]})

\* deleteSession with deleteMany({}) in place of deleteOne({ user_id })
deleteSession_All(ss, userId) == EmptyBag

\* deleteSession: deleteOne({ user_id })
deleteSession(ss, userId) ==
    IF hasSession(ss, userId)
    THEN ss (-) SetToBag({firstSession(ss, userId)})
    ELSE ss

\* getSession: the stored data, or null (the empty sequence)
getSession(ss, userId) ==
    IF hasSession(ss, userId) THEN <<firstSession(ss, userId).data>> ELSE <<>>

\* the step of the Session the sender has when a handler runs, "" with none
priorStep(userId) ==
    IF hasSession(sessions, userId) THEN getSession(sessions, userId)[1].step ELSE ""

Notification(userId, type, data) ==
    [user_id |-> userId, type |-> type, data |-> data, read |-> FALSE]

\* a message the bot sent with bot.telegram.sendMessage
Message(to, kind, questionId, from) ==
    [to |-> to, kind |-> kind, questionId |-> questionId, from |-> from]

\* sendRealTimeNotification: the message goes out unless sendMessage throws (the
\* recipient has blocked the bot); the catch only logs.  found: the document the
\* message is built from was read (otherwise the message is empty and not sent).
sendRealTimeNotification(ob, userId, type, id, from, found, delivered) ==
    IF found /\ delivered THEN ob \cup {Message(userId, type, id, from)} ELSE ob

\* createNotification inserting the document twice
createNotification_Twice(ns, userId, type, data, delivered) ==
    ns (+) SetToBag({Notification(userId, type, data)})
       (+) SetToBag({Notification(userId, type, data)})

\* createNotification undoing its insert when the delivery fails
createNotification_Rollback(ns, userId, type, data, delivered) ==
    IF delivered THEN ns (+) SetToBag({Notification(userId, type, data)}) ELSE ns

\* createNotification: the notifications collection after insertOne and the
\* delivery attempt, whose outcome is delivered
createNotification(ns, userId, type, data, delivered) ==
    ns (+) SetToBag({Notification(userId, type, data)})

\* subscribeToQuestion doing nothing
subscribeToQuestion_Nothing(subs, userId, questionId) == subs

\* subscribeToQuestion as a plain insertOne
subscribeToQuestion_Insert(subs, userId, questionId) ==
    subs (+) SetToBag({<<userId, questionId>>})

\* updateOne with upsert and $setOnInsert: a matching document is left as it is,
\* otherwise one is inserted
subscribeToQuestion(subs, userId, questionId) ==
    IF BagIn(<<userId, questionId>>, subs)
    THEN subs
    ELSE subs (+) SetToBag({<<userId, questionId>>})

\* deleteOne: removes one matching document, if any
unsubscribeFromQuestion(subs, userId, questionId) ==
    subs (-) SetToBag({<<userId, questionId>>})

\* the user_id of every subscription document of the question, one entry per
\* document: a bag of user ids
getSubscribers(subs, questionId) ==
    [u \in {t[1] : t \in {x \in BagToSet(subs) : x[2] = questionId}} |->
        CopiesIn(<<u, questionId>>, subs)]

-----------------------------------------------------------------------------
(* Voting *)

deleteOneVote(vs, userId, answerId) ==
    {v \in vs : ~(v.user_id = userId /\ v.answer_id = answerId)}

\* insertOne under the unique index vote_unique (user_id, answer_id)
insertOneVote(vs, userId, answerId, voteType) ==
    IF \E v \in vs : v.user_id = userId /\ v.answer_id = answerId
    THEN [ok |-> FALSE, votes |-> vs]
    ELSE [ok |-> TRUE,
          votes |-> vs \cup {[user_id |-> userId, answer_id |-> answerId,
                              vote_type |-> voteType]}]

\* voteAnswer without the self-vote guard
voteAnswer_NoSelfCheck(userId, answerId, voteType) ==
    IF answerId \notin DOMAIN answers
    THEN [ok |-> FALSE, votes |-> votes, answers |-> answers]
    ELSE LET ins == insertOneVote(deleteOneVote(votes, userId, answerId),
                                  userId, answerId, voteType)
             voteValue == IF voteType = "up" THEN 1 ELSE -1
         IN  [ok |-> TRUE, votes |-> ins.votes,
              answers |-> [answers EXCEPT ![answerId].votes = @ + voteValue]]

\* voteAnswer without the removal of the existing vote: the insert then hits
\* the unique index, throws, and the catch returns false
voteAnswer_NoDelete(userId, answerId, voteType) ==
    IF answerId \notin DOMAIN answers
    THEN [ok |-> FALSE, votes |-> votes, answers |-> answers]
    ELSE IF answers[answerId].user_id = userId
    THEN [ok |-> FALSE, votes |-> votes, answers |-> answers]
    ELSE LET ins == insertOneVote(votes, userId, answerId, voteType)
             voteValue == IF voteType = "up" THEN 1 ELSE -1
         IN  IF ~ins.ok
             THEN [ok |-> FALSE, votes |-> votes, answers |-> answers]
             ELSE [ok |-> TRUE, votes |-> ins.votes,
                   answers |-> [answers EXCEPT ![answerId].votes = @ + voteValue]]

\* the result of voteAnswer and the votes and answers collections after it
voteAnswer(userId, answerId, voteType) ==
    IF answerId \notin DOMAIN answers
    THEN [ok |-> FALSE, votes |-> votes, answers |-> answers]
    ELSE IF answers[answerId].user_id = userId
    THEN [ok |-> FALSE, votes |-> votes, answers |-> answers]
    ELSE LET removed == deleteOneVote(votes, userId, answerId)
             ins == insertOneVote(removed, userId, answerId, voteType)
             voteValue == IF voteType = "up" THEN 1 ELSE -1
         IN  IF ~ins.ok
             THEN [ok |-> FALSE, votes |-> removed, answers |-> answers]
             ELSE [ok |-> TRUE, votes |-> ins.votes,
                   answers |-> [answers EXCEPT ![answerId].votes = @ + voteValue]]

\* what the update was (its kind, sender, the id in its callback data, its text)
\* and the reply the handler gave
Handled(ev, userId, id, text, reply) ==
    last' = [ev |-> ev, user |-> userId, id |-> id, text |-> text, reply |-> reply,
             reason |-> "", failed |-> {}, prior |-> priorStep(userId)]

\* a blocked reply that leaves the reason out
Blocked_NoReason(ev, userId, text, reply, reason) ==
    last' = [ev |-> ev, user |-> userId, id |-> 0, text |-> text, reply |-> reply,
             reason |-> "", failed |-> {}, prior |-> priorStep(userId)]

\* a reply that quotes the moderator's reason
Blocked(ev, userId, text, reply, reason) ==
    last' = [ev |-> ev, user |-> userId, id |-> 0, text |-> text, reply |-> reply,
             reason |-> reason, failed |-> {}, prior |-> priorStep(userId)]

\* a handler that created notifications: failed are the recipients whose
\* delivery threw
Notified(ev, userId, id, text, reply, failed) ==
    last' = [ev |-> ev, user |-> userId, id |-> id, text |-> text, reply |-> reply,
             reason |-> "", failed |-> failed,
             prior |-> priorStep(userId)]

\* how many vote_received notifications are stored
VoteNotifications ==
    BagCardinality([n \in {m \in BagToSet(notifications) : m.type = "vote_received"}
                       |-> notifications[n]])

\* the body shared by bot.action(/VOTE_UP_(.+)/) and bot.action(/VOTE_DOWN_(.+)/)
VoteHandler(ev, userId, answerId, voteType, okReply) ==
    LET r == voteAnswer(userId, answerId, voteType)
        notify == r.ok /\ answerId \in DOMAIN r.answers
                       /\ r.answers[answerId].user_id # userId
    IN  /\ VoteNotifications < MaxVoteNotifications
        /\ votes' = r.votes
        /\ answers' = r.answers
        /\ IF notify
           THEN LET author == r.answers[answerId].user_id
                IN  \E delivered \in BOOLEAN :
                      /\ notifications' =
                            createNotification(notifications, author, "vote_received",
                                [answerId |-> answerId,
                                 answer |-> r.answers[answerId].answer,
                                 voteType |-> voteType], delivered)
                      /\ outbox' = sendRealTimeNotification(outbox, author,
                                       "vote_received", answerId, userId, TRUE,
                                       delivered)
                      /\ Notified(ev, userId, answerId, <<>>, okReply,
                                  IF delivered THEN {} ELSE {author})
           ELSE /\ notifications' = notifications
                /\ outbox' = outbox
                /\ Handled(ev, userId, answerId, <<>>,
                           IF r.ok THEN okReply ELSE "Cannot vote on your own answer")
        /\ UNCHANGED <<users, questions, sessions, subscriptions, channel,
                       nextQ, nextA, inflight>>

VOTE_UP(userId, answerId) ==
    VoteHandler("VOTE_UP", userId, answerId, "up", "Upvoted!")

VOTE_DOWN(userId, answerId) ==
    VoteHandler("VOTE_DOWN", userId, answerId, "down", "Downvoted!")

VOTE_NONE(userId, answerId) ==
    /\ votes' = deleteOneVote(votes, userId, answerId)
    /\ Handled("VOTE_NONE", userId, answerId, <<>>, "Vote removed!")
    /\ UNCHANGED <<users, questions, answers, sessions, subscriptions,
                   notifications, channel, outbox, nextQ, nextA, inflight>>

\* the writes of voteAnswer, in order
VoteWrites == {"deleteOne", "insertOne", "updateOne"}

\* the vote handlers when the store throws at one of voteAnswer's writes: the
\* writes before it stay, the catch returns false, no notification is created
VoteWriteFailed(ev, userId, answerId, voteType, failAt) ==
    LET removed == deleteOneVote(votes, userId, answerId)
        ins == insertOneVote(removed, userId, answerId, voteType)
    IN  /\ answerId \in DOMAIN answers
        /\ answers[answerId].user_id # userId
        /\ votes' = CASE failAt = "deleteOne" -> votes
                      [] failAt = "insertOne" -> removed
                      [] failAt = "updateOne" -> ins.votes
        /\ Handled(ev, userId, answerId, <<>>, "Cannot vote on your own answer")
        /\ UNCHANGED <<users, questions, answers, sessions, subscriptions,
                       notifications, channel, outbox, nextQ, nextA, inflight>>

-----------------------------------------------------------------------------
(* Conversation handlers *)

\* JavaScript truthiness of a string-valued field
Truthy(x) == x # Undefined /\ x # <<>>

StartPayloads == {<<"none", 0>>} \cup {<<"channel", q>> : q \in QIds}
                     \cup {<<"answer", q>> : q \in QIds}

\* bot.command('start'), with the deep-link payload
cmd_start(userId, startPayload) ==
    LET questionId == startPayload[2]
        live == questionId \in DOMAIN questions /\ questions[questionId].approved
    IN  /\ users' = createUser(users, userId)
        /\ IF startPayload[1] = "answer" /\ live
           THEN /\ sessions' = saveSession(sessions, userId,
                                   AnswerSession(questionId, questions[questionId]))
                /\ Handled("start", userId, questionId, <<>>, "Answer Question")
           ELSE /\ sessions' = sessions
                /\ Handled("start", userId, questionId, <<>>,
                           IF startPayload[1] = "channel" /\ live
                           THEN "Question from Channel" ELSE "Welcome")
        /\ UNCHANGED <<questions, answers, subscriptions, votes, notifications,
                       channel, outbox, nextQ, nextA, inflight>>

\* bot.command('ask')
cmd_ask(userId) ==
    /\ sessions' = saveSession(sessions, userId, NewSession("awaiting_question"))
    /\ Handled("ask", userId, 0, <<>>, "Start a Question")
    /\ UNCHANGED <<users, questions, answers, subscriptions, votes, notifications,
                   channel, outbox, nextQ, nextA, inflight>>

START_QUESTION(userId) ==
    /\ sessions' = saveSession(sessions, userId, NewSession("awaiting_question"))
    /\ Handled("START_QUESTION", userId, 0, <<>>, "Start a Question")
    /\ UNCHANGED <<users, questions, answers, subscriptions, votes, notifications,
                   channel, outbox, nextQ, nextA, inflight>>

SEND_FEEDBACK(userId) ==
    /\ sessions' = saveSession(sessions, userId, NewSession("awaiting_feedback"))
    /\ Handled("SEND_FEEDBACK", userId, 0, <<>>, "Send Feedback")
    /\ UNCHANGED <<users, questions, answers, subscriptions, votes, notifications,
                   channel, outbox, nextQ, nextA, inflight>>

\* bot.action(/TOPIC_(\d+)/)
TOPIC(userId, topicIndex) ==
    /\ IF hasSession(sessions, userId) /\ getSession(sessions, userId)[1].step = "awaiting_topic"
       THEN IF topicIndex = 5
            THEN /\ sessions' = saveSession(sessions, userId,
                        [getSession(sessions, userId)[1] EXCEPT !.waitingForCustomTopic = TRUE])
                 /\ Handled("TOPIC", userId, topicIndex, <<>>, "Custom Topic")
            ELSE /\ sessions' = saveSession(sessions, userId,
                        [getSession(sessions, userId)[1] EXCEPT !.topic = TopicAt(topicIndex),
                                                 !.step = "confirm_question"])
                 /\ Handled("TOPIC", userId, topicIndex, <<>>, "Question Preview")
       ELSE /\ sessions' = sessions
            /\ Handled("TOPIC", userId, topicIndex, <<>>, "")
    /\ UNCHANGED <<users, questions, answers, subscriptions, votes, notifications,
                   channel, outbox, nextQ, nextA, inflight>>

SHOW_TOPICS(userId) ==
    /\ IF hasSession(sessions, userId) /\ getSession(sessions, userId)[1].step = "awaiting_topic"
       THEN /\ sessions' = saveSession(sessions, userId,
                   [getSession(sessions, userId)[1] EXCEPT !.waitingForCustomTopic = FALSE])
            /\ Handled("SHOW_TOPICS", userId, 0, <<>>, "Choose Category")
       ELSE /\ sessions' = sessions
            /\ Handled("SHOW_TOPICS", userId, 0, <<>>, "")
    /\ UNCHANGED <<users, questions, answers, subscriptions, votes, notifications,
                   channel, outbox, nextQ, nextA, inflight>>

EDIT_QUESTION(userId) ==
    /\ IF hasSession(sessions, userId) /\ Truthy(getSession(sessions, userId)[1].question)
       THEN /\ sessions' = saveSession(sessions, userId,
                   [getSession(sessions, userId)[1] EXCEPT !.step = "editing_question"])
            /\ Handled("EDIT_QUESTION", userId, 0, <<>>, "Edit Your Question")
       ELSE /\ sessions' = sessions
            /\ Handled("EDIT_QUESTION", userId, 0, <<>>, "")
    /\ UNCHANGED <<users, questions, answers, subscriptions, votes, notifications,
                   channel, outbox, nextQ, nextA, inflight>>

CANCEL_EDIT(userId) ==
    /\ IF hasSession(sessions, userId)
       THEN /\ sessions' = saveSession(sessions, userId,
                   [getSession(sessions, userId)[1] EXCEPT !.step = "confirm_question"])
            /\ Handled("CANCEL_EDIT", userId, 0, <<>>, "Question Preview")
       ELSE /\ sessions' = sessions
            /\ Handled("CANCEL_EDIT", userId, 0, <<>>, "")
    /\ UNCHANGED <<users, questions, answers, subscriptions, votes, notifications,
                   channel, outbox, nextQ, nextA, inflight>>

\* bot.action('BACK_TO_MAIN'): the button labelled Cancel / Main Menu / Back
BACK_TO_MAIN(userId) ==
    /\ Handled("BACK_TO_MAIN", userId, 0, <<>>, "Welcome back")
    /\ UNCHANGED store
    /\ UNCHANGED inflight

\* bot.action('SUBMIT_QUESTION') after its getSession: got is what that read returned
SubmitBody(userId, got) ==
    IF got = <<>> \/ ~Truthy(got[1].question) \/ ~Truthy(got[1].topic)
    THEN /\ Handled("SUBMIT_QUESTION", userId, 0, <<>>, "Session expired")
         /\ UNCHANGED store
    ELSE IF ~contentFilter(got[1].question).allowed
    THEN /\ Blocked("SUBMIT_QUESTION", userId, <<>>, "Question Blocked",
                    contentFilter(got[1].question).reason)
         /\ UNCHANGED store
    ELSE /\ nextQ <= MaxQuestions
         /\ questions' = With(questions, nextQ,
                              createQuestion(userId, got[1].question, got[1].topic))
         /\ nextQ' = nextQ + 1
         /\ Handled("SUBMIT_QUESTION", userId, nextQ, <<>>, "Question Submitted!")
         /\ IF userId \in DOMAIN users
            THEN /\ outbox' = outbox \cup
                        {Message(ADMIN_ID, "approval_request", nextQ, userId)}
                 /\ sessions' = deleteSession(sessions, userId)
            ELSE \* user.username of null throws: the catch only logs
                 /\ outbox' = outbox
                 /\ sessions' = sessions
         /\ UNCHANGED <<users, answers, subscriptions, votes, notifications,
                        channel, nextA>>

SUBMIT_QUESTION(userId) ==
    /\ SubmitBody(userId, getSession(sessions, userId))
    /\ UNCHANGED inflight

-----------------------------------------------------------------------------
(* Moderation *)

\* bot.action(/APPROVE_(.+)/) past its ADMIN_ID guard: the channel post gets the
\* next message id
ApproveBody(userId, questionId) ==
    IF questionId \notin DOMAIN questions
    THEN /\ Handled("APPROVE", userId, questionId, <<>>, "Question not found")
         /\ UNCHANGED store
         /\ UNCHANGED inflight
    ELSE LET message_id == Len(channel) + 1
             question == questions[questionId]
             r == approveQuestion(questions, users, questionId, message_id)
         IN  /\ Len(channel) < MaxPosts
             /\ channel' = Append(channel, questionId)
             /\ questions' = r.questions
             /\ users' = r.users
             /\ \E delivered \in BOOLEAN :
                   /\ notifications' =
                         createNotification(notifications, question.user_id,
                             "question_approved",
                             [question |-> question.question,
                              channelMessageId |-> message_id], delivered)
                   /\ outbox' = sendRealTimeNotification(outbox, question.user_id,
                                    "question_approved", questionId, userId, TRUE,
                                    delivered)
                   /\ Notified("APPROVE", userId, questionId, <<>>,
                               "Question Approved!",
                               IF delivered THEN {} ELSE {question.user_id})
             /\ UNCHANGED <<answers, sessions, subscriptions, votes, nextQ,
                            nextA, inflight>>

\* the handler with its ADMIN_ID guard left out
APPROVE_NoAdminCheck(userId, questionId) ==
    ApproveBody(userId, questionId)

APPROVE(userId, questionId) ==
    IF userId # ADMIN_ID
    THEN /\ Handled("APPROVE", userId, questionId, <<>>, "Access denied")
         /\ UNCHANGED store
         /\ UNCHANGED inflight
    ELSE ApproveBody(userId, questionId)

\* the operator's approve of a stored question when the store throws at
\* approveQuestion's updateOne: the channel post is out already, approveQuestion
\* catches and returns null, and the handler, which never looks at that result,
\* goes on to the confirmation and the notification
ApproveWriteFailed(userId, questionId) ==
    LET message_id == Len(channel) + 1
        question == questions[questionId]
    IN  /\ userId = ADMIN_ID
        /\ questionId \in DOMAIN questions
        /\ Len(channel) < MaxPosts
        /\ channel' = Append(channel, questionId)
        /\ \E delivered \in BOOLEAN :
              /\ notifications' =
                    createNotification(notifications, question.user_id,
                        "question_approved",
                        [question |-> question.question,
                         channelMessageId |-> message_id], delivered)
              /\ outbox' = sendRealTimeNotification(outbox, question.user_id,
                               "question_approved", questionId, userId, TRUE,
                               delivered)
              /\ Notified("APPROVE", userId, questionId, <<>>,
                          "Question Approved!",
                          IF delivered THEN {} ELSE {question.user_id})
        /\ UNCHANGED <<users, questions, answers, sessions, subscriptions, votes,
                       nextQ, nextA, inflight>>

\* bot.action(/REJECT_(.+)/)
REJECT(userId, questionId) ==
    IF userId # ADMIN_ID
    THEN /\ Handled("REJECT", userId, questionId, <<>>, "Access denied")
         /\ UNCHANGED store
         /\ UNCHANGED inflight
    ELSE IF questionId \notin DOMAIN questions
    THEN /\ Handled("REJECT", userId, questionId, <<>>, "Question not found")
         /\ UNCHANGED store
         /\ UNCHANGED inflight
    ELSE /\ questions' = Without(questions, questionId)
         /\ outbox' = outbox \cup
                {Message(questions[questionId].user_id, "question_rejected",
                         questionId, userId)}
         /\ Handled("REJECT", userId, questionId, <<>>, "Question Rejected!")
         /\ UNCHANGED <<users, answers, sessions, subscriptions, votes, notifications,
                        channel, nextQ, nextA, inflight>>

-----------------------------------------------------------------------------
(* Answering *)

\* the handler checking only that the question exists
CHANNEL_ANSWER_NoApprovedCheck(userId, questionId) ==
    /\ IF questionId \notin DOMAIN questions
       THEN /\ sessions' = sessions
            /\ Handled("CHANNEL_ANSWER", userId, questionId, <<>>, "Question not found")
       ELSE /\ sessions' = saveSession(sessions, userId,
                               AnswerSession(questionId, questions[questionId]))
            /\ Handled("CHANNEL_ANSWER", userId, questionId, <<>>,
                       "Please check your messages!")
    /\ UNCHANGED <<users, questions, answers, subscriptions, votes, notifications,
                   channel, outbox, nextQ, nextA, inflight>>

\* bot.action(/CHANNEL_ANSWER_(.+)/)
CHANNEL_ANSWER(userId, questionId) ==
    /\ IF questionId \notin DOMAIN questions \/ ~questions[questionId].approved
       THEN /\ sessions' = sessions
            /\ Handled("CHANNEL_ANSWER", userId, questionId, <<>>, "Question not found")
       ELSE /\ sessions' = saveSession(sessions, userId,
                               AnswerSession(questionId, questions[questionId]))
            /\ Handled("CHANNEL_ANSWER", userId, questionId, <<>>,
                       "Please check your messages!")
    /\ UNCHANGED <<users, questions, answers, subscriptions, votes, notifications,
                   channel, outbox, nextQ, nextA, inflight>>

\* createAnswer without its update of the question
incAnswerCount_Skipped(qs, questionId) == qs

\* createAnswer's updateOne({ _id: questionId }, { $inc: { answer_count: 1 } })
incAnswerCount(qs, questionId) ==
    IF questionId \in DOMAIN qs
    THEN [qs EXCEPT ![questionId].answer_count = @ + 1]
    ELSE qs

createAnswer(questionId, userId, answer, channelMessageId) ==
    [question_id |-> questionId, user_id |-> userId, answer |-> answer,
     channel_message_id |-> channelMessageId, votes |-> 0]

\* the fan-out with the subscriber loop notifying the asker as well
newAnswerRecipients_AskerTwice(subscribers, author, userId) ==
    [r \in (author \ {userId}) \cup ((DOMAIN subscribers) \ {userId}) |->
        (IF r \in author THEN 1 ELSE 0)
        + (IF r \in DOMAIN subscribers THEN subscribers[r] ELSE 0)]

\* how many new_answer notifications each user gets: the asker (author, empty
\* when the question is gone) one unless the asker is the answerer; every other
\* subscriber but the answerer one per subscription document
newAnswerRecipients(subscribers, author, userId) ==
    [r \in (author \ {userId}) \cup
           ((DOMAIN subscribers) \ ({userId} \cup author)) |->
        IF r \in author THEN 1 ELSE subscribers[r]]

\* the awaiting_answer branch of bot.on('text'), the moderator passed
AnswerBranch(userId, userMessage, session) ==
    LET questionId == session.questionId
        found == questionId \in DOMAIN questions
        subs2 == subscribeToQuestion(subscriptions, userId, questionId)
        subscribers == getSubscribers(subs2, questionId)
        author == IF found THEN {questions[questionId].user_id} ELSE {}
        data == [questionId |-> questionId, answer |-> userMessage,
                 answererId |-> userId]
        \* question.user_id of null throws for the first subscriber other than the
        \* answerer
        threw == ~found /\ (DOMAIN subscribers) \ {userId} # {}
        \* how many notifications each user gets: the asker one, a subscriber one
        \* per subscription document
        recipients ==
            IF threw THEN <<>> ELSE newAnswerRecipients(subscribers, author, userId)
    IN  /\ nextA <= MaxAnswers
        /\ answers' = With(answers, nextA,
                           createAnswer(questionId, userId, userMessage,
                                        session.channelMessageId))
        /\ nextA' = nextA + 1
        /\ questions' = incAnswerCount(questions, questionId)
        /\ users' = updateUserStats(users, userId, "answers_given")
        /\ subscriptions' = subs2
        /\ \E failing \in SUBSET (DOMAIN recipients) :
              /\ notifications' = notifications (+)
                     [n \in {Notification(r, "new_answer", data) :
                                r \in DOMAIN recipients} |-> recipients[n.user_id]]
              /\ outbox' = outbox \cup
                     {Message(r, "new_answer", questionId, userId) :
                        r \in (DOMAIN recipients) \ failing}
              /\ IF threw
                 THEN /\ sessions' = sessions
                      /\ Handled("text", userId, nextA, userMessage,
                                 "An error occurred")
                 ELSE /\ sessions' = deleteSession(sessions, userId)
                      /\ Notified("text", userId, nextA, userMessage,
                                  "Answer Posted!", failing)
        /\ UNCHANGED <<votes, channel, nextQ>>

\* String.prototype.startsWith with a search string of one code unit
startsWith(text, unit) == Len(text) > 0 /\ text[1] = unit

\* the !session branch registering the sender the way /start does
TextWithoutSession_Registers(userId, userMessage) ==
    /\ Handled("text", userId, 0, userMessage,
               IF startsWith(userMessage, "/") THEN "" ELSE "Please use /start")
    /\ users' = createUser(users, userId)
    /\ UNCHANGED <<questions, answers, sessions, subscriptions, votes,
                   notifications, channel, outbox, nextQ, nextA>>

\* the !session branch of bot.on('text'): nothing for a text that starts with
\* "/", the "Please use /start" reply for any other
TextWithoutSession(userId, userMessage) ==
    /\ Handled("text", userId, 0, userMessage,
               IF startsWith(userMessage, "/") THEN "" ELSE "Please use /start")
    /\ UNCHANGED store

\* bot.on('text') after its getSession: got is what that read returned
TextBody(userId, userMessage, got) ==
    IF got = <<>>
    THEN TextWithoutSession(userId, userMessage)
    ELSE IF got[1].step \in {"awaiting_question", "editing_question"}
    THEN IF ~contentFilter(userMessage).allowed
         THEN /\ Blocked("text", userId, userMessage, "Question Blocked",
                         contentFilter(userMessage).reason)
              /\ UNCHANGED store
         ELSE /\ sessions' = saveSession(sessions, userId,
                     [got[1] EXCEPT
                         !.question = userMessage,
                         !.step = IF got[1].step = "awaiting_question"
                                  THEN "awaiting_topic" ELSE "confirm_question"])
              /\ Handled("text", userId, 0, userMessage,
                         IF got[1].step = "awaiting_question"
                         THEN "Choose Question Category" ELSE "Question Updated")
              /\ UNCHANGED <<users, questions, answers, subscriptions, votes,
                             notifications, channel, outbox, nextQ, nextA>>
    ELSE IF got[1].step = "awaiting_topic" /\ got[1].waitingForCustomTopic
    THEN /\ sessions' = saveSession(sessions, userId,
                [got[1] EXCEPT !.topic = userMessage,
                               !.step = "confirm_question",
                               !.waitingForCustomTopic = FALSE])
         /\ Handled("text", userId, 0, userMessage, "Question Preview")
         /\ UNCHANGED <<users, questions, answers, subscriptions, votes,
                        notifications, channel, outbox, nextQ, nextA>>
    ELSE IF got[1].step = "awaiting_feedback"
    THEN IF userId \in DOMAIN users
         THEN /\ outbox' = outbox \cup {Message(ADMIN_ID, "feedback", 0, userId)}
              /\ sessions' = deleteSession(sessions, userId)
              /\ Handled("text", userId, 0, userMessage, "Feedback Sent!")
              /\ UNCHANGED <<users, questions, answers, subscriptions, votes,
                             notifications, channel, nextQ, nextA>>
         ELSE \* user.username of null throws after the reply
              /\ Handled("text", userId, 0, userMessage, "An error occurred")
              /\ UNCHANGED store
    ELSE IF got[1].step = "awaiting_answer"
    THEN IF ~contentFilter(userMessage).allowed
         THEN /\ Blocked("text", userId, userMessage, "Answer Blocked",
                         contentFilter(userMessage).reason)
              /\ UNCHANGED store
         ELSE AnswerBranch(userId, userMessage, got[1])
    ELSE /\ Handled("text", userId, 0, userMessage, "")
         /\ UNCHANGED store

on_text(userId, userMessage) ==
    /\ TextBody(userId, userMessage, getSession(sessions, userId))
    /\ UNCHANGED inflight

-----------------------------------------------------------------------------
(* Subscriptions *)

\* bot.action(/SUBSCRIBE_(.+)/)
SUBSCRIBE(userId, questionId) ==
    /\ subscriptions' = subscribeToQuestion(subscriptions, userId, questionId)
    /\ Handled("SUBSCRIBE", userId, questionId, <<>>, "Subscribed to question!")
    /\ UNCHANGED <<users, questions, answers, sessions, votes, notifications,
                   channel, outbox, nextQ, nextA, inflight>>

\* bot.action(/UNSUBSCRIBE_(.+)/)
UNSUBSCRIBE(userId, questionId) ==
    /\ subscriptions' = unsubscribeFromQuestion(subscriptions, userId, questionId)
    /\ Handled("UNSUBSCRIBE", userId, questionId, <<>>, "Unsubscribed from question")
    /\ UNCHANGED <<users, questions, answers, sessions, votes, notifications,
                   channel, outbox, nextQ, nextA, inflight>>

-----------------------------------------------------------------------------
(* Callback queries.  The data of a callback query that carries an id is a     *)
(* prefix followed by the id.  bot.action(trigger, handler) registers the      *)
(* handlers in source order; a RegExp trigger is tried with exec, which finds  *)
(* it anywhere in the data, and the first handler whose trigger matches runs   *)
(* alone (no handler calls next).  The string triggers match only data equal   *)
(* to them, so never data that carries an id.                                  *)

SUBSCRIBE_ == <<"S","U","B","S","C","R","I","B","E","_">>
UNSUBSCRIBE_ == <<"U","N">> \o SUBSCRIBE_
VOTE_UP_ == <<"V","O","T","E","_","U","P","_">>
VOTE_DOWN_ == <<"V","O","T","E","_","D","O","W","N","_">>
VOTE_NONE_ == <<"V","O","T","E","_","N","O","N","E","_">>
APPROVE_ == <<"A","P","P","R","O","V","E","_">>
REJECT_ == <<"R","E","J","E","C","T","_">>
CHANNEL_ANSWER_ == <<"C","H","A","N","N","E","L","_","A","N","S","W","E","R","_">>
CHANNEL_BROWSE_ == <<"C","H","A","N","N","E","L","_","B","R","O","W","S","E","_">>
TOPIC_ == <<"T","O","P","I","C","_">>

\* the RegExp triggers /X_(.+)/ (and /TOPIC_(\d+)/), in registration order
ActionTriggers ==
    <<TOPIC_, APPROVE_, REJECT_, CHANNEL_ANSWER_, CHANNEL_BROWSE_,
      VOTE_UP_, VOTE_DOWN_, VOTE_NONE_, SUBSCRIBE_, UNSUBSCRIBE_>>

\* trigger.exec(prefix + id): the id is a non-empty run of digits and hex
\* letters after the prefix, so the trigger matches when it occurs in the prefix;
\* /TOPIC_(\d+)/ needs a digit next, so it has to end the prefix
matches(trigger, prefix) ==
    IF trigger = TOPIC_
    THEN Len(prefix) >= Len(trigger)
         /\ SubSeq(prefix, Len(prefix) - Len(trigger) + 1, Len(prefix)) = trigger
    ELSE includes(prefix, trigger)

\* the trigger of the handler that runs: the first registered one that matches
\* (the empty sequence when none does)
Route(prefix) ==
    IF \E k \in DOMAIN ActionTriggers : matches(ActionTriggers[k], prefix)
    THEN LET k == CHOOSE i \in DOMAIN ActionTriggers :
                     /\ matches(ActionTriggers[i], prefix)
                     /\ \A j \in 1..(i - 1) : ~matches(ActionTriggers[j], prefix)
         IN  ActionTriggers[k]
    ELSE <<>>

\* the prefixes of the callback data the bot's buttons carry
Prefixes == {ActionTriggers[k] : k \in DOMAIN ActionTriggers}

\* Route, tabulated
Routes == [prefix \in Prefixes |-> Route(prefix)]

\* a callback query of userId with data prefix + id
callback_query(userId, prefix, id) ==
    LET trigger == Routes[prefix]
    IN  CASE trigger = SUBSCRIBE_ -> SUBSCRIBE(userId, id)
          [] trigger = UNSUBSCRIBE_ -> UNSUBSCRIBE(userId, id)
          [] trigger = VOTE_UP_ -> VOTE_UP(userId, id)
          [] trigger = VOTE_DOWN_ -> VOTE_DOWN(userId, id)
          [] trigger = VOTE_NONE_ -> VOTE_NONE(userId, id)
          [] trigger = APPROVE_ -> APPROVE(userId, id)
          [] trigger = REJECT_ -> REJECT(userId, id)
          [] trigger = CHANNEL_ANSWER_ -> CHANNEL_ANSWER(userId, id)
          [] trigger = TOPIC_ -> TOPIC(userId, id)
          [] OTHER -> UNCHANGED vars

-----------------------------------------------------------------------------
(* Updates in flight.  Telegraf starts the handler of every update it is     *)
(* handed without waiting for the handlers of earlier updates; a handler     *)
(* runs until its next await.  Here a text or SUBMIT_QUESTION handler runs   *)
(* in two steps: up to the await of getSession, and the rest.                *)

Idle == [pc |-> "idle", ev |-> "", user |-> "", text |-> <<>>, got |-> <<>>]

Slots == 1..MaxInflight

\* an update arrives and its handler starts, in the first free slot
Receive(i, ev, userId, text) ==
    /\ inflight[i].pc = "idle"
    /\ \A j \in 1..(i - 1) : inflight[j].pc # "idle"
    /\ inflight' = [inflight EXCEPT ![i] =
           [pc |-> "received", ev |-> ev, user |-> userId, text |-> text, got |-> <<>>]]
    /\ UNCHANGED store
    /\ UNCHANGED last

ReadSession(i) ==
    /\ inflight[i].pc = "received"
    /\ inflight' = [inflight EXCEPT ![i].pc = "read",
                                    ![i].got = getSession(sessions, inflight[i].user)]
    /\ UNCHANGED store
    /\ UNCHANGED last

Complete(i) ==
    /\ inflight[i].pc = "read"
    /\ IF inflight[i].ev = "text"
       THEN TextBody(inflight[i].user, inflight[i].text, inflight[i].got)
       ELSE SubmitBody(inflight[i].user, inflight[i].got)
    /\ inflight' = [inflight EXCEPT ![i] = Idle]

-----------------------------------------------------------------------------
(* Specifications *)

Init ==
    /\ users = <<>>
    /\ questions = <<>>
    /\ answers = <<>>
    /\ sessions = <<>>
    /\ subscriptions = EmptyBag
    /\ votes = {}
    /\ notifications = EmptyBag
    /\ channel = <<>>
    /\ outbox = {}
    /\ nextQ = 1
    /\ nextA = 1
    /\ inflight = [i \in Slots |-> Idle]
    /\ last = [ev |-> "", user |-> "", id |-> 0, text |-> <<>>, reply |-> "",
               reason |-> "", failed |-> {},
               prior |-> ""]

\* The operator holds an Approve / Reject button pair for a question once the
\* submit handler has delivered the moderation request for it.
Offered(questionId) ==
    \E m \in outbox : m.kind = "approval_request" /\ m.questionId = questionId

NoPayload == <<"none", 0>>

\* Every handler, each run to completion.
Next ==
    \/ \E u \in Users, p \in StartPayloads : cmd_start(u, p)
    \/ \E u \in Users : cmd_ask(u)
    \/ \E u \in Users : START_QUESTION(u)
    \/ \E u \in Users : SEND_FEEDBACK(u)
    \/ \E u \in Users, n \in 0..6 : TOPIC(u, n)
    \/ \E u \in Users : SHOW_TOPICS(u)
    \/ \E u \in Users : EDIT_QUESTION(u)
    \/ \E u \in Users : CANCEL_EDIT(u)
    \/ \E u \in Users : SUBMIT_QUESTION(u)
    \/ \E u \in Users : BACK_TO_MAIN(u)
    \/ \E u \in Users, q \in QIds : APPROVE(u, q)
    \/ \E u \in Users, q \in QIds : REJECT(u, q)
    \/ \E u \in Users, q \in QIds : CHANNEL_ANSWER(u, q)
    \/ \E u \in Users, t \in Texts : on_text(u, t)
    \/ \E u \in Users, a \in AIds : VOTE_UP(u, a)
    \/ \E u \in Users, a \in AIds : VOTE_DOWN(u, a)
    \/ \E u \in Users, a \in AIds : VOTE_NONE(u, a)

Spec == Init /\ [][Next]_vars

\* Moderation: bob authors questions; every identity presses Approve and Reject.
NextModeration ==
    \/ cmd_start("bob", NoPayload)
    \/ cmd_ask("bob")
    \/ on_text("bob", TextHi)
    \/ TOPIC("bob", 1)
    \/ SUBMIT_QUESTION("bob")
    \/ \E q \in QIds : Offered(q) /\ APPROVE(ADMIN_ID, q)
    \/ \E q \in QIds : Offered(q) /\ REJECT(ADMIN_ID, q)
    \/ \E u \in Users \ {ADMIN_ID}, q \in QIds : APPROVE(u, q)
    \/ \E u \in Users \ {ADMIN_ID}, q \in QIds : REJECT(u, q)

SpecModeration == Init /\ [][NextModeration]_vars

\* Conversation: bob walks the question and feedback flows, carol the answer
\* flow; each may press Cancel (BACK_TO_MAIN) at any time.
NextCancel ==
    \/ cmd_start("bob", NoPayload)
    \/ cmd_ask("bob")
    \/ SEND_FEEDBACK("bob")
    \/ on_text("bob", TextHi)
    \/ TOPIC("bob", 1)
    \/ EDIT_QUESTION("bob")
    \/ SUBMIT_QUESTION("bob")
    \/ \E q \in QIds : Offered(q) /\ APPROVE(ADMIN_ID, q)
    \/ \E q \in QIds : CHANNEL_ANSWER("carol", q)
    \/ on_text("carol", TextHi)
    \/ \E u \in {"bob", "carol"} : BACK_TO_MAIN(u)

SpecCancel == Init /\ [][NextCancel]_vars

\* Voting starts from the store as it is after these updates, handled in this
\* order from Init: admin /start, /ask, text "Hi?", TOPIC_1, SUBMIT_QUESTION,
\* APPROVE_1; bob /start, CHANNEL_ANSWER_1, text "Hi?"; carol CHANNEL_ANSWER_1,
\* text "Hi?".  Question 1 is published with answer 1 by bob and answer 2 by carol.
VoteSeed ==
    /\ users = [u \in {"admin", "bob"} |->
                  IF u = "admin"
                  THEN [points |-> 5, questions_asked |-> 1, answers_given |-> 0]
                  ELSE [points |-> 5, questions_asked |-> 0, answers_given |-> 1]]
    /\ questions = <<[createQuestion("admin", TextHi, TopicAt(1)) EXCEPT
                         !.approved = TRUE, !.channel_message_id = 1,
                         !.answer_count = 2]>>
    /\ answers = <<createAnswer(1, "bob", TextHi, 1), createAnswer(1, "carol", TextHi, 1)>>
    /\ sessions = <<>>
    /\ subscriptions = SetToBag({<<"bob", 1>>, <<"carol", 1>>})
    /\ votes = {}
    /\ notifications = SetToBag({
           Notification("admin", "question_approved",
                        [question |-> TextHi, channelMessageId |-> 1]),
           Notification("admin", "new_answer",
                        [questionId |-> 1, answer |-> TextHi, answererId |-> "bob"]),
           Notification("admin", "new_answer",
                        [questionId |-> 1, answer |-> TextHi, answererId |-> "carol"]),
           Notification("bob", "new_answer",
                        [questionId |-> 1, answer |-> TextHi, answererId |-> "carol"])})
    /\ channel = <<1>>
    /\ outbox = {Message("admin", "approval_request", 1, "admin"),
                 Message("admin", "question_approved", 1, "admin"),
                 Message("admin", "new_answer", 1, "bob"),
                 Message("admin", "new_answer", 1, "carol"),
                 Message("bob", "new_answer", 1, "carol")}
    /\ nextQ = 2
    /\ nextA = 3
    /\ inflight = [i \in Slots |-> Idle]
    /\ last = [ev |-> "text", user |-> "carol", id |-> 2, text |-> TextHi,
               reply |-> "Answer Posted!", reason |-> "", failed |-> {},
               prior |-> "awaiting_answer"]

InitVote == VoteSeed

\* The updates that lead from Init to VoteSeed (TLC reaches VoteSeed under
\* SpecVoteSetup).
NextVoteSetup ==
    \/ \E u \in {"admin", "bob"} : cmd_start(u, NoPayload)
    \/ cmd_ask("admin")
    \/ TOPIC("admin", 1)
    \/ SUBMIT_QUESTION("admin")
    \/ Offered(1) /\ APPROVE(ADMIN_ID, 1)
    \/ \E u \in {"bob", "carol"} : CHANNEL_ANSWER(u, 1)
    \/ \E u \in Users : on_text(u, TextHi)

SpecVoteSetup == Init /\ [][NextVoteSetup]_vars

\* Every user sends vote events for every answer id handed out so far and for
\* the next one, which no answer has yet.
NextVote ==
    \/ \E u \in Users, a \in 1..nextA : VOTE_UP(u, a)
    \/ \E u \in Users, a \in 1..nextA : VOTE_DOWN(u, a)
    \/ \E u \in Users, a \in 1..nextA : VOTE_NONE(u, a)

SpecVote == InitVote /\ [][NextVote]_vars

\* Answering and subscribing start from the store as it is after these updates,
\* handled in this order from Init: admin /start, /ask, text "Hi?", TOPIC_1,
\* SUBMIT_QUESTION, APPROVE_1.  Question 1 is published and has no answer.
AnswerSeed ==
    /\ users = [u \in {"admin"} |->
                  [points |-> 5, questions_asked |-> 1, answers_given |-> 0]]
    /\ questions = <<[createQuestion("admin", TextHi, TopicAt(1)) EXCEPT
                         !.approved = TRUE, !.channel_message_id = 1]>>
    /\ answers = <<>>
    /\ sessions = <<>>
    /\ subscriptions = EmptyBag
    /\ votes = {}
    /\ notifications = SetToBag({
           Notification("admin", "question_approved",
                        [question |-> TextHi, channelMessageId |-> 1])})
    /\ channel = <<1>>
    /\ outbox = {Message("admin", "approval_request", 1, "admin"),
                 Message("admin", "question_approved", 1, "admin")}
    /\ nextQ = 2
    /\ nextA = 1
    /\ inflight = [i \in Slots |-> Idle]
    /\ last = [ev |-> "APPROVE", user |-> "admin", id |-> 1, text |-> <<>>,
               reply |-> "Question Approved!", reason |-> "", failed |-> {},
               prior |-> ""]

InitAnswer == AnswerSeed

\* bob and carol open the answer prompt of question 1, type an answer, and
\* press Subscribe and Unsubscribe buttons of question 1.
NextSubscribe ==
    \/ \E u \in {"bob", "carol"} : callback_query(u, CHANNEL_ANSWER_, 1)
    \/ \E u \in {"bob", "carol"} : on_text(u, TextHi)
    \/ \E u \in {"bob", "carol"} : callback_query(u, SUBSCRIBE_, 1)
    \/ \E u \in {"bob", "carol"} : callback_query(u, UNSUBSCRIBE_, 1)

SpecSubscribe == InitAnswer /\ [][NextSubscribe]_vars

\* Every user, the asker included, opens the answer prompt of question 1 and
\* types an answer; the asker and carol also press Subscribe; the operator may
\* press Reject on the moderation message of question 1, which deletes it.
NextAnswer ==
    \/ \E u \in Users : callback_query(u, CHANNEL_ANSWER_, 1)
    \/ \E u \in Users : on_text(u, TextHi)
    \/ \E u \in {"admin", "carol"} : callback_query(u, SUBSCRIBE_, 1)
    \/ Offered(1) /\ callback_query(ADMIN_ID, REJECT_, 1)

SpecAnswer == InitAnswer /\ [][NextAnswer]_vars

\* Every operation that notifies: bob answers question 1, to which carol may
\* subscribe; carol votes on the first answer; the operator presses Approve on
\* the moderation message of question 1 again.
NextNotify ==
    \/ callback_query("bob", CHANNEL_ANSWER_, 1)
    \/ on_text("bob", TextHi)
    \/ callback_query("carol", SUBSCRIBE_, 1)
    \/ callback_query("carol", VOTE_UP_, 1)
    \/ callback_query("carol", VOTE_DOWN_, 1)
    \/ Offered(1) /\ callback_query(ADMIN_ID, APPROVE_, 1)

SpecNotify == InitAnswer /\ [][NextNotify]_vars

\* The moderator alone: a text is typed and dbHelpers.contentFilter is applied
\* to it.
InitFilter ==
    /\ users = <<>>
    /\ questions = <<>>
    /\ answers = <<>>
    /\ sessions = <<>>
    /\ subscriptions = EmptyBag
    /\ votes = {}
    /\ notifications = EmptyBag
    /\ channel = <<>>
    /\ outbox = {}
    /\ nextQ = 1
    /\ nextA = 1
    /\ inflight = [i \in Slots |-> Idle]
    /\ \E text \in FilterInputs :
          last = [ev |-> "typed", user |-> "", id |-> 0, text |-> text,
                  reply |-> "", reason |-> "", failed |-> {},
                  prior |-> ""]

\* filterResult = dbHelpers.contentFilter(text)
Evaluate ==
    /\ last.ev = "typed"
    /\ LET filterResult == contentFilter(last.text)
       IN  last' = [last EXCEPT !.ev = "contentFilter",
                                !.reply = IF filterResult.allowed
                                          THEN "allowed" ELSE "not allowed",
                                !.reason = filterResult.reason]
    /\ UNCHANGED store
    /\ UNCHANGED inflight

NextFilter == Evaluate

SpecFilter == InitFilter /\ [][NextFilter]_vars

\* Moderated typing: the asker of question 1 writes, edits and submits another
\* question and carol answers question 1, each typing acceptable texts, texts
\* with a banned word, or a repetitive text, at any point.
ModeratedTexts == {TextHi, TextSpam, TextBitLy, TextRepeat}

NextModerator ==
    \/ cmd_ask("admin")
    \/ \E t \in ModeratedTexts : on_text("admin", t)
    \/ callback_query("admin", TOPIC_, 1)
    \/ EDIT_QUESTION("admin")
    \/ SUBMIT_QUESTION("admin")
    \/ callback_query("carol", CHANNEL_ANSWER_, 1)
    \/ \E t \in ModeratedTexts : on_text("carol", t)

SpecModerator == InitAnswer /\ [][NextModerator]_vars

\* Updates in flight: bob's question flow and carol's answer flow, with the
\* text and SUBMIT_QUESTION updates handled concurrently.
NextRace ==
    \/ cmd_start("bob", NoPayload)
    \/ cmd_ask("bob")
    \/ on_text("bob", TextHi)
    \/ TOPIC("bob", 1)
    \/ Offered(1) /\ APPROVE(ADMIN_ID, 1)
    \/ CHANNEL_ANSWER("carol", 1)
    \/ \E i \in Slots : Receive(i, "text", "carol", TextHi)
    \/ \E i \in Slots : Receive(i, "SUBMIT_QUESTION", "bob", <<>>)
    \/ \E i \in Slots : ReadSession(i)
    \/ \E i \in Slots : Complete(i)

SpecRace == Init /\ [][NextRace]_vars

\* bob, who has never sent /start, starts every flow, over and over: /ask, the
\* Ask button, the Feedback button, the Answer button of question 1 and its
\* deep link; he types texts, picks a topic, and opens and cancels the edit.
NextFlow ==
    \/ cmd_ask("bob")
    \/ START_QUESTION("bob")
    \/ SEND_FEEDBACK("bob")
    \/ callback_query("bob", CHANNEL_ANSWER_, 1)
    \/ cmd_start("bob", <<"answer", 1>>)
    \/ \E t \in {TextHi, TextSlash} : on_text("bob", t)
    \/ callback_query("bob", TOPIC_, 1)
    \/ EDIT_QUESTION("bob")
    \/ CANCEL_EDIT("bob")
    \/ BACK_TO_MAIN("bob")

SpecFlow == InitAnswer /\ [][NextFlow]_vars

\* Two askers: carol opens the bot with /start, bob never does (he uses /ask
\* straight away, as a member of a group the bot was added to can). Each
\* drafts a question, picks a topic and presses Submit.
NextSubmit ==
    \/ cmd_start("carol", NoPayload)
    \/ \E u \in {"bob", "carol"} : cmd_ask(u)
    \/ \E u \in {"bob", "carol"} : on_text(u, TextHi)
    \/ \E u \in {"bob", "carol"} : callback_query(u, TOPIC_, 1)
    \/ \E u \in {"bob", "carol"} : SUBMIT_QUESTION(u)

SpecSubmit == Init /\ [][NextSubmit]_vars

\* Store failures injected at the writes of a vote and of an approve: bob
\* answers question 1 and carol votes on the answer, the operator drafts and
\* submits a question of their own and approves what was offered; any of these
\* votes and approves may hit a store that throws.
NextFault ==
    \/ callback_query("bob", CHANNEL_ANSWER_, 1)
    \/ on_text("bob", TextHi)
    \/ callback_query("carol", VOTE_UP_, 1)
    \/ \E failAt \in VoteWrites : VoteWriteFailed("VOTE_UP", "carol", 1, "up", failAt)
    \/ cmd_ask(ADMIN_ID)
    \/ on_text(ADMIN_ID, TextHi)
    \/ callback_query(ADMIN_ID, TOPIC_, 1)
    \/ SUBMIT_QUESTION(ADMIN_ID)
    \/ \E q \in QIds : Offered(q) /\ callback_query(ADMIN_ID, APPROVE_, q)
    \/ \E q \in QIds : Offered(q) /\ ApproveWriteFailed(ADMIN_ID, q)

SpecFault == InitAnswer /\ [][NextFault]_vars

\* carol drafts a question and chooses its topic, from the list or by typing
\* a custom one, and submits; her texts are a clean one and one with a banned
\* word.
NextTopic ==
    \/ cmd_start("carol", NoPayload)
    \/ cmd_ask("carol")
    \/ \E t \in {TextHi, TextSpam} : on_text("carol", t)
    \/ \E n \in {1, 5} : callback_query("carol", TOPIC_, n)
    \/ SHOW_TOPICS("carol")
    \/ SUBMIT_QUESTION("carol")

SpecTopic == Init /\ [][NextTopic]_vars

\* the edit prompt, whose only button is Cancel Edit, is still on the user's
\* screen: the user is in editing_question, or was until their last event and
\* that event was not the Cancel Edit that turns the prompt into the preview
EditPromptOnScreen(userId) ==
    \/ priorStep(userId) = "editing_question"
    \/ /\ last.user = userId
       /\ last.prior = "editing_question"
       /\ last.ev # "CANCEL_EDIT"

\* the preview with its Edit and Submit buttons is still on the user's screen
PreviewOnScreen(userId) ==
    \/ priorStep(userId) = "confirm_question"
    \/ /\ last.user = userId
       /\ last.prior = "confirm_question"
       /\ last.ev \notin {"EDIT_QUESTION", "SUBMIT_QUESTION"}

\* bob and carol draft questions, pick a topic, edit, cancel the edit and
\* submit, pressing only buttons that are on their screen; /ask can be sent at
\* any time.
NextEdit ==
    \/ \E u \in {"bob", "carol"} : cmd_ask(u)
    \/ \E u \in {"bob", "carol"} : on_text(u, TextHi)
    \/ \E u \in {"bob", "carol"} : callback_query(u, TOPIC_, 1)
    \/ \E u \in {"bob", "carol"} : PreviewOnScreen(u) /\ EDIT_QUESTION(u)
    \/ \E u \in {"bob", "carol"} : EditPromptOnScreen(u) /\ CANCEL_EDIT(u)
    \/ \E u \in {"bob", "carol"} : PreviewOnScreen(u) /\ SUBMIT_QUESTION(u)

SpecEdit == Init /\ [][NextEdit]_vars

\* carol submits a question, which the operator may approve; bob, in the
\* middle of a draft of his own, presses Answer buttons and opens answer deep
\* links for question ids that are missing, pending or approved.
NextOpen ==
    \/ cmd_start("carol", NoPayload)
    \/ cmd_ask("carol")
    \/ on_text("carol", TextHi)
    \/ callback_query("carol", TOPIC_, 1)
    \/ SUBMIT_QUESTION("carol")
    \/ \E q \in QIds : Offered(q) /\ callback_query(ADMIN_ID, APPROVE_, q)
    \/ cmd_ask("bob")
    \/ \E q \in QIds : callback_query("bob", CHANNEL_ANSWER_, q)
    \/ \E q \in QIds : cmd_start("bob", <<"answer", q>>)

SpecOpen == Init /\ [][NextOpen]_vars

-----------------------------------------------------------------------------
(* Properties *)

IsCast(l) == l.ev \in {"VOTE_UP", "VOTE_DOWN"}

CastSign(l) == IF l.ev = "VOTE_UP" THEN "up" ELSE "down"

VotesOf(vs, userId, answerId) ==
    {v \in vs : v.user_id = userId /\ v.answer_id = answerId}

SignedVotes(answerId) ==
    Cardinality({v \in votes : v.answer_id = answerId /\ v.vote_type = "up"})
    - Cardinality({v \in votes : v.answer_id = answerId /\ v.vote_type = "down"})

\* C1: after a user's Cancel (BACK_TO_MAIN) has been handled, that user has no
\* Session.
C1_CancelDeletesSession ==
    last.ev = "BACK_TO_MAIN" => ~hasSession(sessions, last.user)

\* C2: updates of one user are handled one at a time, so two of them never
\* both complete the terminal transition of one Session: when an update
\* completes a terminal transition (it creates an Answer or a Question from
\* the Session it read), that Session is still stored; no other update of the
\* user has consumed it in the meantime.
C2_OneAtATime ==
    [][\A i \in Slots :
          (/\ inflight[i].pc = "read"
           /\ inflight'[i].pc = "idle"
           /\ last'.reply \in {"Answer Posted!", "Question Submitted!"})
          => hasSession(sessions, inflight[i].user)]_vars

\* C3: an approve by the operator of a Question that is already approved
\* changes neither the Question nor its author's User record.
C3_SecondApproveIsNoOp ==
    [][(/\ last'.ev = "APPROVE"
        /\ last'.user = ADMIN_ID
        /\ last'.id \in DOMAIN questions
        /\ questions[last'.id].approved)
       => (questions' = questions /\ users' = users)]_vars

\* C4: a reject by the operator of a Question that is missing or already
\* approved answers NotFound and leaves the store as it was.
C4_RejectNonPendingIsNotFound ==
    [][(/\ last'.ev = "REJECT"
        /\ last'.user = ADMIN_ID
        /\ (last'.id \notin DOMAIN questions \/ questions[last'.id].approved))
       => (last'.reply = "Question not found" /\ UNCHANGED store)]_vars

\* C5: an APPROVE or REJECT from any identity but the operator is refused and
\* leaves the whole store (questions, users, notifications, channel) unchanged.
C5_NonOperatorRefused ==
    [][(last'.ev \in {"APPROVE", "REJECT"} /\ last'.user # ADMIN_ID)
       => (last'.reply = "Access denied" /\ UNCHANGED store)]_vars

\* a non-operator has pressed Approve on a pending Question, which is pending still
C5_Witness ==
    /\ last.ev = "APPROVE"
    /\ last.user # ADMIN_ID
    /\ last.id \in DOMAIN questions
    /\ ~questions[last.id].approved
    /\ last.reply = "Access denied"

\* C6: an up or down vote by the author of the answer is rejected and changes
\* nothing: the answers, the votes and the notifications stay as they were, and
\* no Vote record of the author for that answer exists afterwards.
C6_SelfVoteRejected ==
    [][(/\ IsCast(last')
        /\ last'.id \in DOMAIN answers
        /\ answers[last'.id].user_id = last'.user)
       => (/\ last'.reply = "Cannot vote on your own answer"
           /\ answers' = answers
           /\ votes' = votes
           /\ notifications' = notifications
           /\ VotesOf(votes', last'.user, last'.id) = {})]_vars

\* an author has voted on the own answer, which other users have voted on
C6_Witness ==
    /\ IsCast(last)
    /\ last.id \in DOMAIN answers
    /\ answers[last.id].user_id = last.user
    /\ \E v \in votes : v.answer_id = last.id

\* C7: every Answer's stored vote count is the sum of the signed Vote records
\* that reference it.
C7_VoteCountIsSum ==
    \A a \in DOMAIN answers : answers[a].votes = SignedVotes(a)

\* C8: a down vote by a user who holds an up vote on that answer moves the
\* answer's vote count by -2.
C8_UpToDownMovesByTwo ==
    [][(/\ last'.ev = "VOTE_DOWN"
        /\ last'.reply = "Downvoted!"
        /\ [user_id |-> last'.user, answer_id |-> last'.id, vote_type |-> "up"]
               \in votes)
       => answers'[last'.id].votes = answers[last'.id].votes - 2]_vars

\* C9: after an up or down cast by a user other than the answer's author, the
\* votes hold exactly one record for that (user, answer) pair and it has the
\* sign of that cast; and no pair ever has two records.
C9_OneVotePerPair ==
    /\ \A v, w \in votes :
          (v.user_id = w.user_id /\ v.answer_id = w.answer_id) => v = w
    /\ (/\ IsCast(last)
        /\ last.id \in DOMAIN answers
        /\ answers[last.id].user_id # last.user)
       => VotesOf(votes, last.user, last.id) =
              {[user_id |-> last.user, answer_id |-> last.id,
                vote_type |-> CastSign(last)]}

\* a user has cast down on an answer after casting up on it: both casts notified
\* the author
C9_Witness ==
    /\ last.ev = "VOTE_DOWN"
    /\ last.reply = "Downvoted!"
    /\ \E n \in BagToSet(notifications) :
          /\ n.type = "vote_received"
          /\ n.data.answerId = last.id
          /\ n.data.voteType = "up"
    /\ \E v \in VotesOf(votes, last.user, last.id) : v.vote_type = "down"

\* C10: clearing an up vote (VOTE_NONE) lowers the answer's vote count by 1 and
\* creates no notification.
C10_ClearUndoesUpvote ==
    [][(/\ last'.ev = "VOTE_NONE"
        /\ [user_id |-> last'.user, answer_id |-> last'.id, vote_type |-> "up"]
               \in votes)
       => (/\ answers'[last'.id].votes = answers[last'.id].votes - 1
           /\ notifications' = notifications)]_vars

\* C11: a successful up or down vote by a user other than the answer's author
\* adds exactly one notification: a vote_received addressed to the author,
\* carrying the answer and the cast direction; and no vote adds a notification
\* addressed to the voter.
C11_VoteNotifiesAuthor ==
    [][IsCast(last') =>
        /\ (/\ last'.reply \in {"Upvoted!", "Downvoted!"}
            /\ last'.id \in DOMAIN answers
            /\ answers[last'.id].user_id # last'.user)
           => notifications' = notifications (+)
                 SetToBag({Notification(answers[last'.id].user_id, "vote_received",
                              [answerId |-> last'.id,
                               answer |-> answers[last'.id].answer,
                               voteType |-> CastSign(last')])})
        /\ \A n \in BagToSet(notifications') :
              CopiesIn(n, notifications') > CopiesIn(n, notifications)
                 => n.user_id # last'.user]_vars

\* a down vote has just notified the answer's author, for the second time
C11_Witness ==
    /\ last.ev = "VOTE_DOWN"
    /\ last.reply = "Downvoted!"
    /\ \E n \in BagToSet(notifications) :
          /\ n.type = "vote_received"
          /\ n.user_id = answers[last.id].user_id
          /\ n.data.voteType = "down"
          /\ n.data.answerId = last.id
          /\ CopiesIn(n, notifications) = 2

\* C12: after a SUBSCRIBE_<id> event, and after an answer has been posted, the
\* user has exactly one Subscription record for the question, however many
\* times the user subscribed before; SUBSCRIBE reports success; and no
\* (user, question) pair ever has two records.
C12_SubscribeIdempotent ==
    [][/\ \A sub \in BagToSet(subscriptions') : CopiesIn(sub, subscriptions') = 1
       /\ last'.ev = "SUBSCRIBE"
             => /\ CopiesIn(<<last'.user, last'.id>>, subscriptions') = 1
                /\ last'.reply = "Subscribed to question!"
       /\ (last'.ev = "text" /\ last'.reply = "Answer Posted!")
             => CopiesIn(<<last'.user, answers'[last'.id].question_id>>,
                         subscriptions') = 1]_vars

\* a user who answered question 1 twice, and so was auto-subscribed twice, has
\* pressed Subscribe on it
C12_Witness ==
    /\ last.ev = "SUBSCRIBE"
    /\ last.reply = "Subscribed to question!"
    /\ Cardinality({a \in DOMAIN answers :
                       /\ answers[a].user_id = last.user
                       /\ answers[a].question_id = last.id}) = 2
    /\ CopiesIn(<<last.user, last.id>>, subscriptions) = 1

\* C13: after a user's UNSUBSCRIBE_<questionId> callback query has been
\* handled, the user has no Subscription record for that question.
C13_UnsubscribeRemoves ==
    [][\A u \in Users, q \in QIds :
          callback_query(u, UNSUBSCRIBE_, q) => ~BagIn(<<u, q>>, subscriptions')]_vars

\* C14: whenever an Answer is created, its author has a Subscription to its
\* question when the handler has finished.
C14_AnswererSubscribed ==
    [][nextA' = nextA + 1
         => BagIn(<<answers'[nextA].user_id, answers'[nextA].question_id>>,
                  subscriptions')]_vars

\* bob, who was not subscribed and has not answered before, has posted an answer
\* and is subscribed; carol has posted one too
C14_Witness ==
    /\ last.reply = "Answer Posted!"
    /\ last.user = "bob"
    /\ Cardinality({a \in DOMAIN answers : answers[a].user_id = "bob"}) = 1
    /\ BagIn(<<"bob", answers[last.id].question_id>>, subscriptions)
    /\ \E a \in DOMAIN answers : answers[a].user_id = "carol"

\* the users the new_answer notifications of an answer by userId to questionId
\* are due to: the asker unless the answerer, and the subscribers other than
\* the answerer
NewAnswerAudience(userId, questionId) ==
    ({questions[questionId].user_id}
        \cup {sub[1] : sub \in {x \in BagToSet(subscriptions) : x[2] = questionId}})
    \ {userId}

\* C15: an answer by B to a stored question Q adds exactly one new_answer
\* notification for each user of the audience (Q's asker unless B, and Q's
\* subscribers other than B), and none for anybody else.
C15_FanOutOncePerUser ==
    [][(last'.ev = "text" /\ last'.reply = "Answer Posted!"
          /\ answers'[last'.id].question_id \in DOMAIN questions)
       => notifications' = notifications (+)
             SetToBag({Notification(r, "new_answer",
                          [questionId |-> answers'[last'.id].question_id,
                           answer |-> last'.text,
                           answererId |-> last'.user]) :
                       r \in NewAnswerAudience(last'.user,
                                               answers'[last'.id].question_id)})]_vars

\* bob has answered question 1 while its asker and carol were subscribed: the
\* asker and carol each hold a notification of bob's answer
C15_Witness ==
    /\ last.reply = "Answer Posted!"
    /\ last.user = "bob"
    /\ BagIn(<<"admin", 1>>, subscriptions)
    /\ BagIn(<<"carol", 1>>, subscriptions)
    /\ \A r \in {"admin", "carol"} :
          \E n \in BagToSet(notifications) :
             n.user_id = r /\ n.type = "new_answer" /\ n.data.answererId = "bob"

\* the notification documents a step inserts
Inserted(n) == CopiesIn(n, notifications') > CopiesIn(n, notifications)

\* C16: when the delivery of a notification fails, its record is stored, unread,
\* and is never taken back, and the operation that triggered it completes as
\* with a delivery that succeeded: the answer is created, its session closed
\* and the rest of its fan-out recorded and delivered; the vote is recorded and
\* counted; the question is approved and published; and the reply is the
\* success reply.
C16_DeliveryFailureIsolated ==
    [][/\ notifications \sqsubseteq notifications'
       /\ last'.failed # {} =>
           /\ \A r \in last'.failed :
                 \E n \in BagToSet(notifications') :
                    Inserted(n) /\ n.user_id = r /\ ~n.read
           /\ last'.ev = "text" =>
                 /\ last'.reply = "Answer Posted!"
                 /\ nextA' = nextA + 1
                 /\ answers'[nextA].answer = last'.text
                 /\ ~hasSession(sessions', last'.user)
                 /\ \A r \in NewAnswerAudience(last'.user,
                                                answers'[nextA].question_id) :
                       /\ \E n \in BagToSet(notifications') :
                             Inserted(n) /\ n.user_id = r /\ ~n.read
                       /\ r \notin last'.failed =>
                             Message(r, "new_answer", answers'[nextA].question_id,
                                     last'.user) \in outbox'
           /\ IsCast(last') =>
                 /\ last'.reply \in {"Upvoted!", "Downvoted!"}
                 /\ [user_id |-> last'.user, answer_id |-> last'.id,
                     vote_type |-> CastSign(last')] \in votes'
                 /\ answers'[last'.id].votes # answers[last'.id].votes
           /\ last'.ev = "APPROVE" =>
                 /\ last'.reply = "Question Approved!"
                 /\ questions'[last'.id].approved
                 /\ channel' = Append(channel, last'.id)
           /\ last'.ev \in {"text", "VOTE_UP", "VOTE_DOWN", "APPROVE"}]_vars

\* bob's answer has been posted although the delivery to the asker failed; the
\* delivery to carol, a subscriber, went through
C16_Witness ==
    /\ last.ev = "text"
    /\ last.reply = "Answer Posted!"
    /\ last.failed = {"admin"}
    /\ Message("carol", "new_answer", 1, "bob") \in outbox
    /\ \E n \in BagToSet(notifications) :
          n.user_id = "admin" /\ n.type = "new_answer" /\ ~n.read

\* the code unit c is the letter d, a lower-case letter or a sign, in either case
SameLetter(c, d) ==
    c = d \/ \E k \in DOMAIN LowerCase : LowerCase[k] = d /\ UpperCase[k] = c

\* the text contains a banned word, in any letter case
ContainsBanned(text) ==
    \E w \in DOMAIN bannedWords :
       \E i \in 1..(Len(text) - Len(bannedWords[w]) + 1) :
          \A j \in DOMAIN bannedWords[w] :
             SameLetter(text[i + j - 1], bannedWords[w][j])

\* C17: a typed text that contains a banned word in any letter case is never
\* accepted as a question, an edit or an answer, it is blocked for banned
\* content, and no Question, Answer or Session ever holds such a text.
C17_BannedNeverStored ==
    /\ \A q \in DOMAIN questions : ~ContainsBanned(questions[q].question)
    /\ \A a \in DOMAIN answers : ~ContainsBanned(answers[a].answer)
    /\ \A d \in BagToSet(sessions) : ~ContainsBanned(d.data.question)
    /\ (last.ev = "text" /\ ContainsBanned(last.text)) =>
          /\ last.reply \notin {"Choose Question Category", "Question Updated",
                                 "Answer Posted!"}
          /\ last.reply \in {"Question Blocked", "Answer Blocked"}
                => last.reason = "Contains banned content"

\* a text with a banned word in mixed case has been blocked as an edit of a
\* question, after a question was submitted and an answer posted
C17_Witness ==
    /\ last.ev = "text"
    /\ last.text = TextBitLy
    /\ last.reply = "Question Blocked"
    /\ hasSession(sessions, last.user)
    /\ getSession(sessions, last.user)[1].step = "editing_question"
    /\ 2 \in DOMAIN questions
    /\ 1 \in DOMAIN answers

\* C18: contentFilter gives the reason of the first rule that the text breaks,
\* in the order banned word, more than 2000 long, capital letters, repeated
\* run; it allows the text exactly when no rule is broken; and it rejects
\* every text longer than 2000.
C18_FirstFailingRule ==
    last.ev = "contentFilter" =>
        /\ last.reason =
              IF ContainsBanned(last.text) THEN "Contains banned content"
              ELSE IF Len(last.text) > 2000
              THEN "Content too long (max 2000 characters)"
              ELSE IF Len(last.text) > 20
                      /\ 10 * Cardinality({i \in DOMAIN last.text :
                               \E k \in DOMAIN UpperCase :
                                  UpperCase[k] = last.text[i]})
                            > 7 * Len(last.text)
              THEN "Too many capital letters"
              ELSE IF repetitivePattern(last.text) THEN "Repetitive text detected"
              ELSE ""
        /\ (last.reply = "not allowed") <=> (last.reason # "")
        /\ (last.reply = "allowed") <=> (last.reason = "")
        /\ Len(last.text) > 2000 => last.reply = "not allowed"

\* a text that has a banned word, is longer than 2000, is all capitals and is
\* one long run has been rejected for the banned word
C18_Witness ==
    /\ last.ev = "contentFilter"
    /\ last.text = TextSpam \o Rep("A", 2001)
    /\ last.reason = "Contains banned content"

\* how many characters the text has: the two surrogate units of an emoji are
\* one character
NumCharacters(text) ==
    Len(text) - Cardinality({i \in 1..(Len(text) - 1) :
                               text[i] = HighSurrogate /\ text[i + 1] = LowSurrogate})

\* some character occurs more than 10 times in a row
HasCharacterRun(text) ==
    \/ \E i \in 1..(Len(text) - 10) : \A j \in i..(i + 10) : text[j] = text[i]
    \/ \E i \in 1..(Len(text) - 21) :
          \A k \in 0..10 : /\ text[i + k + k] = HighSurrogate
                            /\ text[i + k + k + 1] = LowSurrogate

\* C19: contentFilter rejects for capital letters only texts of more than 20
\* characters of which more than 0.7 are capitals; a text that breaks no
\* earlier rule is rejected for repetition exactly when some character occurs
\* in it more than 10 times in a row; and 15 times "A" is rejected for
\* repetition.
C19_CapitalsAndRuns ==
    last.ev = "contentFilter" =>
        /\ last.reason = "Too many capital letters"
              => /\ NumCharacters(last.text) > 20
                 /\ 10 * capitalLetters(last.text) > 7 * NumCharacters(last.text)
        /\ last.reason \notin {"Contains banned content",
                                "Content too long (max 2000 characters)",
                                "Too many capital letters"}
              => (last.reason = "Repetitive text detected"
                    <=> HasCharacterRun(last.text))
        /\ last.text = Rep("A", 15) => last.reason = "Repetitive text detected"

\* C20: a text that the moderator rejects while the user's Session is in
\* awaiting_question, editing_question or awaiting_answer leaves the whole
\* store as it was (the Session with its step and payload, no Question, no
\* Answer) and the reply quotes the reason.
C20_RejectionKeepsSession ==
    [][(/\ last'.ev = "text"
        /\ hasSession(sessions, last'.user)
        /\ getSession(sessions, last'.user)[1].step \in
              {"awaiting_question", "editing_question", "awaiting_answer"}
        /\ ~contentFilter(last'.text).allowed)
       => (/\ UNCHANGED store
           /\ last'.reply \in {"Question Blocked", "Answer Blocked"}
           /\ last'.reason = contentFilter(last'.text).reason
           /\ last'.reason # "")]_vars

\* an edit has been rejected for repetition: the session is in editing_question
\* still and holds the question and topic it had
C20_Witness ==
    /\ last.ev = "text"
    /\ last.reply = "Question Blocked"
    /\ last.reason = "Repetitive text detected"
    /\ hasSession(sessions, last.user)
    /\ getSession(sessions, last.user)[1].step = "editing_question"
    /\ getSession(sessions, last.user)[1].question = TextHi
    /\ getSession(sessions, last.user)[1].topic = TopicAt(1)

\* the steps of the conversation state machine
Steps ==
    {"awaiting_question", "awaiting_topic", "confirm_question", "editing_question",
     "awaiting_answer", "awaiting_feedback"}

\* C21: a text message from a user who has no Session changes nothing in the
\* store; the handler only replies "Please use /start" (it stays silent when
\* the text starts with "/").
C21_TextWithoutSessionChangesNothing ==
    [][(last'.ev = "text" /\ last'.prior = "")
         => /\ store' = store
            /\ ~startsWith(last'.text, "/") => last'.reply = "Please use /start"
            /\ startsWith(last'.text, "/") => last'.reply = ""]_vars

C21_Witness ==
    /\ last.ev = "text"
    /\ last.prior = ""
    /\ last.text = TextHi
    /\ last.reply = "Please use /start"
    /\ ~hasSession(sessions, last.user)
    /\ last.user \notin DOMAIN users

C23_OneSessionWithDefinedStep ==
    /\ \A u \in Users :
          BagCardinality([d \in sessionDocuments(sessions, u) |-> sessions[d]]) <= 1
    /\ \A d \in BagToSet(sessions) : d.data.step \in Steps

C23_Witness ==
    /\ last.ev = "ask"
    /\ last.prior = "editing_question"
    /\ BagCardinality(sessions) = 1
    /\ getSession(sessions, last.user)[1].step = "awaiting_question"

\* C24: when a user in confirm_question presses Submit and the draft passes the
\* moderator, exactly one Question is created, with that user as author, the
\* draft's text and topic, approved false, no publication reference and
\* answer_count 0, and the user's Session is gone when the handler has finished.
C24_SubmitCreatesQuestionAndEndsSession ==
    [][(/\ last'.ev = "SUBMIT_QUESTION"
        /\ last'.prior = "confirm_question"
        /\ last'.reply = "Question Submitted!")
         => LET draft == getSession(sessions, last'.user)[1]
            IN  /\ DOMAIN questions' = (DOMAIN questions) \cup {last'.id}
                /\ last'.id \notin DOMAIN questions
                /\ \A q \in DOMAIN questions : questions'[q] = questions[q]
                /\ questions'[last'.id] =
                      [user_id |-> last'.user, question |-> draft.question,
                       topic |-> draft.topic, approved |-> FALSE,
                       channel_message_id |-> 0, answer_count |-> 0]
                /\ ~hasSession(sessions', last'.user)]_vars

\* the moderation requests the operator was sent for a question
approvalRequests(questionId) ==
    {m \in outbox : /\ m.to = ADMIN_ID
                    /\ m.kind = "approval_request"
                    /\ m.questionId = questionId}

\* C25: every pending Question has had a moderation request, with the Approve
\* and Reject buttons keyed by its id, sent to the operator by the handler that
\* created it.
C25_PendingQuestionWasOffered ==
    \A q \in DOMAIN questions :
        ~questions[q].approved => approvalRequests(q) # {}

\* C26: a text that passes the moderator while the sender is in awaiting_answer
\* creates exactly one Answer, for the Session's question and with the sender as
\* author, and the Session is gone when the handler has finished, so that no
\* further text can create a second Answer from it.
C26_AnswerCreatedOnceAndSessionEnded ==
    [][(/\ last'.ev = "text"
        /\ last'.prior = "awaiting_answer"
        /\ contentFilter(last'.text).allowed)
         => LET session == getSession(sessions, last'.user)[1]
            IN  /\ DOMAIN answers' = (DOMAIN answers) \cup {last'.id}
                /\ last'.id \notin DOMAIN answers
                /\ answers'[last'.id].question_id = session.questionId
                /\ answers'[last'.id].user_id = last'.user
                /\ answers'[last'.id].answer = last'.text
                /\ ~hasSession(sessions', last'.user)]_vars

\* how many notifications of a type are stored for a user
notificationsOf(ns, userId, type) ==
    BagCardinality([n \in {m \in BagToSet(ns) :
                              m.user_id = userId /\ m.type = type} |-> ns[n]])

\* C27: when the operator approves a pending Question and the channel post has
\* message id r, the Question is approved with channel_message_id r, its
\* author's points are 5 higher, and the author has exactly one more
\* question_approved notification.
C27_ApprovePublishesAndRewards ==
    [][(/\ last'.ev = "APPROVE"
        /\ last'.reply = "Question Approved!"
        /\ ~questions[last'.id].approved)
         => LET author == questions[last'.id].user_id
                r == Len(channel')
            IN  /\ channel'[r] = last'.id
                /\ Len(channel') = Len(channel) + 1
                /\ questions'[last'.id].approved
                /\ questions'[last'.id].channel_message_id = r
                /\ author \in DOMAIN users
                /\ users'[author].points = users[author].points + 5
                /\ notificationsOf(notifications', author, "question_approved")
                     = notificationsOf(notifications, author, "question_approved") + 1]_vars

C27_Witness ==
    /\ last.ev = "APPROVE"
    /\ last.reply = "Question Approved!"
    /\ last.id = 1
    /\ Len(channel) = 1
    /\ questions[1].approved
    /\ questions[1].channel_message_id = 1
    /\ users[questions[1].user_id].points = 5
    /\ notificationsOf(notifications, questions[1].user_id, "question_approved") = 1

\* C28: between handlers, every User's points are 5 times the number of that
\* user's approved Questions plus 5 times the number of Answers the user created.
C28_PointsLedger ==
    \A u \in DOMAIN users :
        users[u].points =
            5 * Cardinality({q \in DOMAIN questions :
                               questions[q].user_id = u /\ questions[q].approved})
            + 5 * Cardinality({a \in DOMAIN answers : answers[a].user_id = u})

\* C29: a Question is approved exactly when it has a channel_message_id.
C29_ApprovedIffPublished ==
    \A q \in DOMAIN questions :
        questions[q].approved <=> questions[q].channel_message_id # 0

C29_Witness ==
    /\ last.ev = "APPROVE"
    /\ last.reply = "Question Approved!"
    /\ \E q \in DOMAIN questions :
          questions[q].approved /\ questions[q].channel_message_id = Len(channel)
    /\ \E q \in DOMAIN questions :
          ~questions[q].approved /\ questions[q].channel_message_id = 0

\* C30: every Question's answer_count is the number of Answers that reference it.
C30_AnswerCountMatches ==
    \A q \in DOMAIN questions :
        questions[q].answer_count =
            Cardinality({a \in DOMAIN answers : answers[a].question_id = q})

C30_Witness ==
    /\ 1 \in DOMAIN questions
    /\ questions[1].answer_count = 2
    /\ Cardinality({a \in DOMAIN answers : answers[a].question_id = 1}) = 2
    /\ answers[1].user_id # answers[2].user_id

\* C31: no step of any handler deletes a User record or lowers a User's points.
C31_UsersKeptPointsNeverDrop ==
    [][/\ DOMAIN users \subseteq DOMAIN users'
       /\ \A u \in DOMAIN users : users'[u].points >= users[u].points]_vars

C31_Witness ==
    /\ last.ev = "start"
    /\ last.user \in DOMAIN users
    /\ users[last.user].points = 10
    /\ questions = <<>>

\* how many notifications of a type are stored
notificationsOfType(ns, type) ==
    BagCardinality([n \in {m \in BagToSet(ns) : m.type = type} |-> ns[n]])

\* C32: a notification is written only after the primary write of its
\* operation succeeded, whatever write the store fails at: a new vote_received
\* notification only with the vote stored and the answer's count moved, a new
\* question_approved notification only with the Question stored as approved.
C32_NotificationAfterPrimaryWrite ==
    [][/\ notificationsOfType(notifications', "vote_received")
            > notificationsOfType(notifications, "vote_received")
          => /\ \E v \in votes' : v.user_id = last'.user /\ v.answer_id = last'.id
             /\ answers'[last'.id].votes # answers[last'.id].votes
       /\ notificationsOfType(notifications', "question_approved")
            > notificationsOfType(notifications, "question_approved")
          => /\ last'.id \in DOMAIN questions'
             /\ questions'[last'.id].approved]_vars

\* how many messages the channel has received for a question
postsOf(questionId) == Cardinality({i \in DOMAIN channel : channel[i] = questionId})

\* C33: the channel has received exactly one message for each approved
\* Question and none for a Question that is not approved.
C33_OnePostPerApprovedQuestion ==
    \A q \in QIds :
        postsOf(q) = IF q \in DOMAIN questions /\ questions[q].approved THEN 1 ELSE 0

\* C34: once any event of a user has been handled, be it /start, /ask, a
\* callback or a text, a User record with that id exists.
C34_UserRecordOnFirstEvent ==
    [][last'.user \in Users => last'.user \in DOMAIN users']_vars

\* C35: the moderator gates the custom topic too: no Session takes a typed
\* topic the moderator rejects, and no Question is created whose topic fails
\* the moderator.
C35_TopicPassesModerator ==
    /\ \A d \in BagToSet(sessions) :
          Truthy(d.data.topic) => contentFilter(d.data.topic).allowed
    /\ \A q \in DOMAIN questions : contentFilter(questions[q].topic).allowed

\* the step of a user's Session after a step, "" with none
stepAfter(userId) ==
    IF hasSession(sessions', userId) THEN getSession(sessions', userId)[1].step ELSE ""

\* C36: a Session's step becomes editing_question only from confirm_question,
\* and becomes confirm_question only from awaiting_topic or editing_question.
C36_ListedTransitionsOnly ==
    [][LET before == last'.prior
           after == stepAfter(last'.user)
       IN  before # after =>
             /\ after = "editing_question" => before = "confirm_question"
             /\ after = "confirm_question"
                   => before \in {"awaiting_topic", "editing_question"}]_vars

\* C37: a Session in confirm_question carries a question draft and a topic,
\* both set, so that Submit pressed in confirm_question never answers
\* "Session expired".
C37_ConfirmHasDraftAndTopic ==
    \A d \in BagToSet(sessions) :
        d.data.step = "confirm_question"
            => Truthy(d.data.question) /\ Truthy(d.data.topic)

\* C38: every Answer references a Question that is in the store and approved.
C38_AnswerOfApprovedQuestion ==
    \A a \in DOMAIN answers :
        /\ answers[a].question_id \in DOMAIN questions
        /\ questions[answers[a].question_id].approved

\* C39: an awaiting_answer Session is created only for a Question that is
\* stored and approved at that moment; the Answer button or the answer deep
\* link of a missing or pending Question leaves the sessions as they were.
C39_AnswerSessionOnlyForApproved ==
    [][LET live == /\ last'.id \in DOMAIN questions
                   /\ questions[last'.id].approved
       IN  /\ (last'.ev \in {"CHANNEL_ANSWER", "start"} /\ ~live)
                => sessions' = sessions
           /\ (sessions' # sessions /\ stepAfter(last'.user) = "awaiting_answer")
                => /\ live
                   /\ getSession(sessions', last'.user)[1].questionId = last'.id]_vars

C39_Witness ==
    /\ last.ev = "CHANNEL_ANSWER"
    /\ last.reply = "Question not found"
    /\ last.id \in DOMAIN questions
    /\ ~questions[last.id].approved
    /\ last.prior = "awaiting_question"
    /\ getSession(sessions, last.user) = <<NewSession("awaiting_question")>>

\* C40: an event of one user never creates, changes or deletes the Session of
\* another user.
C40_OnlyOwnSessionChanges ==
    [][\A v \in Users \ {last'.user} :
          /\ getSession(sessions', v) = getSession(sessions, v)
          /\ \A d \in sessionDocuments(sessions, v) \cup sessionDocuments(sessions', v) :
                CopiesIn(d, sessions') = CopiesIn(d, sessions)]_vars

C40_Witness ==
    /\ last.ev = "SUBMIT_QUESTION"
    /\ last.user = "carol"
    /\ last.reply = "Question Submitted!"
    /\ ~hasSession(sessions, "carol")
    /\ hasSession(sessions, "bob")
    /\ getSession(sessions, "bob")[1].step = "awaiting_topic"

====
